---- MODULE Spec2Model ----
(***************************************************************************)
(* DART (Dynamic Adaptive Route Transit): the route assignment engine of   *)
(* src/dart-streamlit-app.py, class DARTSystem.                            *)
(*                                                                         *)
(* State: the stops with their demand, the great-circle distance between   *)
(* any two stops, the buses (in dict insertion order), the ledger          *)
(* assigned_demands, and the position of the running call: the for loop of *)
(* update_all_routes and the activation frame of find_optimal_route.       *)
(*                                                                         *)
(* Distances are kept in units of 0.1 km, so that the 0.1 substituted for  *)
(* a zero distance is 1.  Scores are exact rationals <<num, den>> with a   *)
(* positive denominator; Python computes them in binary floating point.    *)
(***************************************************************************)
EXTENDS Integers, Sequences, FiniteSets, TLC

VARIABLES
    stops,             \* stop id -> [demand]                 (self.stops)
    distance,          \* <<stop id, stop id>> -> 0.1 km      (_calculate_distance)
    buses,             \* bus id -> [current_stop, capacity, route] (self.buses)
    bus_keys,          \* insertion order of self.buses
    assigned_demands,  \* the ledger, a dict stop id -> units
    pc,                \* "init", "idle", "for", "while", "return"
    bus_ids,           \* update_all_routes: the buses still to process
    frame,             \* find_optimal_route: the locals of the running call
    outcome,           \* how the last top-level call ended
    rerun,             \* the last update_all_routes began on a used system
    calls              \* direct find_optimal_route calls since the last reset

vars == <<stops, distance, buses, bus_keys, assigned_demands, pc, bus_ids,
          frame, outcome, rerun, calls>>

----------------------------------------------------------------------------
(* Bounds of the model *)

MaxDemand == 2         \* sliders range over 0..MaxDemand
MaxCapacity == 2       \* add_bus capacities range over 0..MaxCapacity
MaxStopsArg == 3       \* direct calls pass max_stops in 0..MaxStopsArg
MaxCalls == 1          \* direct calls between two resets of the ledger

(* Program constants *)

DefaultMaxStops == 5   \* find_optimal_route(self, bus_id, max_stops=5)
InitialBestScore == -1 \* best_score = -1

StopIds == <<"A", "B", "C">>          \* self.stops in insertion order
StopSet == {StopIds[i] : i \in 1..Len(StopIds)}
UnknownStop == "Z"                    \* a stop id that was never added
BusIds == <<"Bus_0", "Bus_1">>        \* keys of self.colors, ascending
BusSet == {BusIds[i] : i \in 1..Len(BusIds)}
None == "None"
NoRoute == <<None>>                   \* Bus.route = None

Range(seq) == {seq[i] : i \in 1..Len(seq)}
Min(a, b) == IF a <= b THEN a ELSE b
Max(a, b) == IF a >= b THEN a ELSE b
Abs(a) == IF a >= 0 THEN a ELSE 0 - a

----------------------------------------------------------------------------
(* Dicts *)

EmptyDict == [k \in {} |-> 0]
Get(d, k) == IF k \in DOMAIN d THEN d[k] ELSE 0
Put(d, k, v) == [x \in (DOMAIN d) \cup {k} |-> IF x = k THEN v ELSE d[x]]

RECURSIVE SumOver(_, _)
SumOver(f, S) ==
    IF S = {} THEN 0
    ELSE LET s == CHOOSE x \in S : TRUE IN f[s] + SumOver(f, S \ {s})

(* sorted(self.buses.keys()): BusIds is in ascending order *)
Sorted(keys) == SelectSeq(BusIds, LAMBDA b : b \in Range(keys))

(* The distance table of stops placed along a road at a, b and c. *)
LineMetric(a, b, c) ==
    LET at == [s \in StopSet |-> IF s = "A" THEN a ELSE IF s = "B" THEN b ELSE c]
    IN [p \in StopSet \X StopSet |-> Abs(at[p[1]] - at[p[2]])]

----------------------------------------------------------------------------
(* find_optimal_route *)

NoFrame ==
    [bus_id |-> None, max_stops |-> 0, caller |-> None,
     remaining_capacity |-> 0,
     remaining_demands |-> [s \in StopSet |-> 0],
     route |-> << >>, current_stop |-> None,
     fallback |-> FALSE,
     ledger_on_entry |-> EmptyDict]

(* lines 71-74 *)
RemainingDemands(st, ledger) ==
    [s \in StopSet |-> Max(0, st[s].demand - Get(ledger, s))]

(* lines 76-79: with nothing left to claim, every stop's full demand is
   offered again *)
Fallback(st, remaining) ==
    IF SumOver(remaining, StopSet) = 0
    THEN [s \in StopSet |-> st[s].demand]
    ELSE remaining

(* lines 68-82 with line 81 as route = [] *)
EnterEmptyRoute(bs, st, ledger, b, n, who) ==
    [bus_id |-> b, max_stops |-> n, caller |-> who,
     remaining_capacity |-> bs[b].capacity,
     remaining_demands |-> Fallback(st, RemainingDemands(st, ledger)),
     route |-> << >>,
     current_stop |-> bs[b].current_stop,
     fallback |-> (SumOver(RemainingDemands(st, ledger), StopSet) = 0),
     ledger_on_entry |-> ledger]

(* lines 68-82: the frame on entry to the while loop.  fallback records the
   branch line 76 took, ledger_on_entry the ledger the call started from. *)
Enter(bs, st, ledger, b, n, who) ==
    [bus_id |-> b, max_stops |-> n, caller |-> who,
     remaining_capacity |-> bs[b].capacity,
     remaining_demands |-> Fallback(st, RemainingDemands(st, ledger)),
     route |-> <<bs[b].current_stop>>,
     current_stop |-> bs[b].current_stop,
     fallback |-> (SumOver(RemainingDemands(st, ledger), StopSet) = 0),
     ledger_on_entry |-> ledger]

(* line 84 with <= for < *)
LoopCondOffByOne(f) == Len(f.route) <= f.max_stops /\ f.remaining_capacity > 0

(* line 84 *)
LoopCond(f) == Len(f.route) < f.max_stops /\ f.remaining_capacity > 0

(* line 99 *)
Coverage(bs, s) ==
    IF s \notin {bs[b].current_stop : b \in DOMAIN bs} THEN 1 ELSE 0

(* lines 101-103 without the demand term *)
ScoreWithoutDemand(bs, dist, f, s) ==
    LET d0 == dist[<<f.current_stop, s>>]
        d == IF d0 = 0 THEN 1 ELSE d0
        c == bs[f.bus_id].capacity
    IN <<40 * c + 2 * Coverage(bs, s) * c * d, 10 * c * d>>

(* lines 90-103, times 10 * capacity * distance:
   0.4 * demand / capacity + 0.4 / distance + 0.2 * coverage *)
Score(bs, dist, f, s) ==
    LET d0 == dist[<<f.current_stop, s>>]
        d == IF d0 = 0 THEN 1 ELSE d0
        c == bs[f.bus_id].capacity
    IN <<4 * f.remaining_demands[s] * d + 40 * c + 2 * Coverage(bs, s) * c * d,
         10 * c * d>>

Greater(x, y) == x[1] * y[2] > y[1] * x[2]

(* lines 85-107: the scan over remaining_demands.items() from stop i on *)
RECURSIVE Scan(_, _, _, _, _, _)
Scan(bs, dist, f, i, best_score, next_stop) ==
    IF i > Len(StopIds) THEN next_stop
    ELSE LET s == StopIds[i] IN
         IF s \notin Range(f.route) /\ Greater(Score(bs, dist, f, s), best_score)
         THEN Scan(bs, dist, f, i + 1, Score(bs, dist, f, s), s)
         ELSE Scan(bs, dist, f, i + 1, best_score, next_stop)

NextStop(bs, dist, f) == Scan(bs, dist, f, 1, <<InitialBestScore, 1>>, None)

(* line 113 without the min: the whole remaining demand, or the whole
   remaining capacity *)
PickupIgnoringCapacity(f, s) == f.remaining_demands[s]
PickupIgnoringDemand(f, s) == f.remaining_capacity

(* line 113 *)
Pickup(f, s) == Min(f.remaining_demands[s], f.remaining_capacity)

(* lines 112-116: the frame after the chosen stop is appended *)
Visit(f, s) ==
    [f EXCEPT !.route = Append(@, s),
              !.remaining_capacity = @ - Pickup(f, s),
              !.current_stop = s]

(* line 115 *)
Claim(ledger, f, s) == Put(ledger, s, Get(ledger, s) + Pickup(f, s))

(* self.stops[current_stop] at line 91 raises KeyError for an unknown stop;
   it is evaluated once a stop outside the route is scanned *)
RaisesKeyError(f) ==
    /\ f.current_stop \notin StopSet
    /\ \E s \in StopSet : s \notin Range(f.route)

----------------------------------------------------------------------------
(* Initial state: DARTSystem() followed by the add_stop calls *)

(* stops 5 km apart along a road; the same with A and B at one place *)
Road == LineMetric(0, 50, 100)
Layouts == {Road, LineMetric(0, 0, 50)}

InitSystem ==
    /\ stops = [s \in StopSet |-> [demand |-> 0]]
    /\ assigned_demands = EmptyDict
    /\ pc = "init"
    /\ bus_ids = << >>
    /\ frame = NoFrame
    /\ outcome = None
    /\ rerun = FALSE
    /\ calls = 0

NoBuses == buses = EmptyDict /\ bus_keys = << >>

Init == InitSystem /\ NoBuses /\ distance = Road

----------------------------------------------------------------------------
(* Actions *)

NewBus(start, capacity) ==
    [current_stop |-> start, capacity |-> capacity, route |-> NoRoute]

(* add_bus, lines 50-57; main adds the buses before the first update *)
AddBusWith(b, start, capacity) ==
    /\ pc = "init"
    /\ buses' = Put(buses, b, NewBus(start, capacity))
    /\ bus_keys' = IF b \in DOMAIN buses THEN bus_keys ELSE Append(bus_keys, b)
    /\ UNCHANGED <<stops, distance, assigned_demands, pc, bus_ids, frame,
                   outcome, rerun, calls>>

AddBus ==
    \E b \in BusSet, start \in StopSet, capacity \in 0..MaxCapacity :
        AddBusWith(b, start, capacity)

(* a system that has run before: a route is stored or the ledger has keys *)
Used(bs, ledger) ==
    (\E b \in DOMAIN bs : bs[b].route # NoRoute) \/ DOMAIN ledger # {}

(* line 121 left out *)
KeepLedger(ledger) == ledger

(* line 121 *)
ResetLedger(ledger) == EmptyDict

(* line 122 *)
ProcessingOrder(keys) == Sorted(keys)

(* main, lines 311-317, into update_all_routes, lines 121-122: the demands
   are stored, the ledger is reset and the bus ids are sorted *)
UpdateRoutesWith(demands) ==
    /\ pc \in {"init", "idle"}
    /\ stops' = [s \in StopSet |-> [stops[s] EXCEPT !.demand = demands[s]]]
    /\ assigned_demands' = ResetLedger(assigned_demands)
    /\ bus_ids' = ProcessingOrder(bus_keys)
    /\ pc' = "for"
    /\ outcome' = None
    /\ rerun' = Used(buses, assigned_demands)
    /\ calls' = 0
    /\ UNCHANGED <<distance, buses, bus_keys, frame>>

UpdateRoutes ==
    \E demands \in [StopSet -> 0..MaxDemand] : UpdateRoutesWith(demands)

(* line 125: the next bus of the for loop enters find_optimal_route *)
CallFindOptimalRoute ==
    /\ pc = "for"
    /\ bus_ids # << >>
    /\ frame' = Enter(buses, stops, assigned_demands, Head(bus_ids),
                      DefaultMaxStops, "update_all_routes")
    /\ bus_ids' = Tail(bus_ids)
    /\ pc' = "while"
    /\ UNCHANGED <<stops, distance, buses, bus_keys, assigned_demands, outcome,
                   rerun, calls>>

(* lines 84-116: one pass of the while loop *)
WhileBody ==
    /\ pc = "while"
    /\ LoopCond(frame)
    /\ ~RaisesKeyError(frame)
    /\ LET next_stop == NextStop(buses, distance, frame) IN
         IF next_stop = None
         THEN /\ pc' = "return"
              /\ UNCHANGED <<frame, assigned_demands>>
         ELSE /\ frame' = Visit(frame, next_stop)
              /\ assigned_demands' = Claim(assigned_demands, frame, next_stop)
              /\ pc' = "while"
    /\ UNCHANGED <<stops, distance, buses, bus_keys, bus_ids, outcome, rerun, calls>>

AtReturn == pc = "return" \/ (pc = "while" /\ ~LoopCond(frame))

(* line 118, and line 126 in update_all_routes *)
Return ==
    /\ AtReturn
    /\ IF frame.caller = "update_all_routes"
       THEN /\ buses' = [buses EXCEPT ![frame.bus_id].route = frame.route]
            /\ pc' = "for"
            /\ UNCHANGED outcome
       ELSE /\ pc' = "idle"
            /\ outcome' = "find_optimal_route"
            /\ UNCHANGED buses
    /\ frame' = NoFrame
    /\ UNCHANGED <<stops, distance, bus_keys, assigned_demands, bus_ids, rerun, calls>>

(* the for loop of lines 124-126 is exhausted *)
EndUpdateAllRoutes ==
    /\ pc = "for"
    /\ bus_ids = << >>
    /\ pc' = "idle"
    /\ outcome' = "update_all_routes"
    /\ UNCHANGED <<stops, distance, buses, bus_keys, assigned_demands, bus_ids,
                   frame, rerun, calls>>

Next ==
    \/ AddBus
    \/ UpdateRoutes
    \/ CallFindOptimalRoute
    \/ WhileBody
    \/ Return
    \/ EndUpdateAllRoutes

Spec == Init /\ [][Next]_vars

----------------------------------------------------------------------------
(* find_optimal_route called on its own, with any max_stops, on a fleet that
   shares one start stop and one capacity, as main sets it up (lines 291-292) *)

Fleet(start, capacity) == [b \in BusSet |-> NewBus(start, capacity)]

InitFleet ==
    /\ InitSystem
    /\ distance \in Layouts
    /\ \E start \in StopSet, capacity \in 0..MaxCapacity :
          /\ buses = Fleet(start, capacity)
          /\ bus_keys = BusIds

(* line 67 entered from outside update_all_routes *)
DirectCall ==
    /\ pc \in {"init", "idle"}
    /\ calls < MaxCalls
    /\ \E b \in DOMAIN buses, n \in 0..MaxStopsArg :
          frame' = Enter(buses, stops, assigned_demands, b, n, "caller")
    /\ calls' = calls + 1
    /\ pc' = "while"
    /\ outcome' = None
    /\ UNCHANGED <<stops, distance, buses, bus_keys, assigned_demands, bus_ids, rerun>>

NextCall ==
    \/ UpdateRoutes
    \/ CallFindOptimalRoute
    \/ DirectCall
    \/ WhileBody
    \/ Return
    \/ EndUpdateAllRoutes

SpecCall == InitFleet /\ [][NextCall]_vars

----------------------------------------------------------------------------
(* The three-stop scenario: A at the origin, B 10 km and C 5 km from A, the
   distance between B and C anything the triangle inequality allows; one
   bus of capacity 60 that starts at A; demands 50, 10 and 0. *)

ScenarioMetric(bc) ==
    [p \in StopSet \X StopSet |->
        IF p[1] = p[2] THEN 0
        ELSE IF "A" \in {p[1], p[2]} THEN (IF "B" \in {p[1], p[2]} THEN 100 ELSE 50)
        ELSE bc]

ScenarioDemands == [s \in StopSet |-> IF s = "A" THEN 50 ELSE IF s = "B" THEN 10 ELSE 0]

InitScenario ==
    /\ InitSystem
    /\ \E bc \in 50..150 : distance = ScenarioMetric(bc)
    /\ buses = [b \in {"Bus_0"} |-> NewBus("A", 60)]
    /\ bus_keys = <<"Bus_0">>

ScenarioUpdate == UpdateRoutesWith(ScenarioDemands)

NextScenario ==
    \/ ScenarioUpdate
    \/ CallFindOptimalRoute
    \/ WhileBody
    \/ Return
    \/ EndUpdateAllRoutes

SpecScenario == InitScenario /\ [][NextScenario]_vars

----------------------------------------------------------------------------
(* Inputs outside the documented ranges: a negative demand, a capacity that
   is not positive, a start stop that was never added *)

InitAny == InitSystem /\ NoBuses /\ distance \in Layouts

AnyCapacities == {-1, 0, MaxCapacity}
AnyDemands == {-1, 0, MaxDemand}

AddAnyBus ==
    \E b \in BusSet, start \in StopSet \cup {UnknownStop},
       capacity \in AnyCapacities :
        AddBusWith(b, start, capacity)

UpdateAnyRoutes ==
    \E demands \in [StopSet -> AnyDemands] : UpdateRoutesWith(demands)

(* line 91: KeyError leaves find_optimal_route and update_all_routes *)
RaiseKeyError ==
    /\ pc = "while"
    /\ LoopCond(frame)
    /\ RaisesKeyError(frame)
    /\ pc' = "idle"
    /\ outcome' = "KeyError"
    /\ frame' = NoFrame
    /\ bus_ids' = << >>
    /\ UNCHANGED <<stops, distance, buses, bus_keys, assigned_demands, rerun, calls>>

NextAny ==
    \/ AddAnyBus
    \/ UpdateAnyRoutes
    \/ CallFindOptimalRoute
    \/ WhileBody
    \/ RaiseKeyError
    \/ Return
    \/ EndUpdateAllRoutes

SpecAny == InitAny /\ [][NextAny]_vars

----------------------------------------------------------------------------
(* One planning cycle computed in one go, from the same steps *)

(* lines 84-118 run to the return: the route and the ledger *)
RECURSIVE RunWhile(_, _, _, _)
RunWhile(bs, dist, f, ledger) ==
    IF ~LoopCond(f) THEN [route |-> f.route, ledger |-> ledger]
    ELSE LET next_stop == NextStop(bs, dist, f) IN
         IF next_stop = None THEN [route |-> f.route, ledger |-> ledger]
         ELSE RunWhile(bs, dist, Visit(f, next_stop), Claim(ledger, f, next_stop))

(* lines 124-126 over the bus ids that are left *)
RECURSIVE RunFor(_, _, _, _, _)
RunFor(bs, st, dist, ids, ledger) ==
    IF ids = << >> THEN [buses |-> bs, ledger |-> ledger]
    ELSE LET b == Head(ids)
             r == RunWhile(bs, dist,
                           Enter(bs, st, ledger, b, DefaultMaxStops, "update_all_routes"),
                           ledger)
         IN RunFor([bs EXCEPT ![b].route = r.route], st, dist, Tail(ids), r.ledger)

(* a new DARTSystem with the same stops, buses and demands, after its first
   update_all_routes *)
FirstCycle ==
    RunFor([b \in DOMAIN buses |-> NewBus(buses[b].current_stop, buses[b].capacity)],
           stops, distance, ProcessingOrder(bus_keys), EmptyDict)

----------------------------------------------------------------------------
(* Properties *)

InCall == pc \in {"while", "return"}
InCycleCall == InCall /\ frame.caller = "update_all_routes"
CycleDone == pc = "idle" /\ outcome = "update_all_routes"
Distinct(seq) == \A i, j \in 1..Len(seq) : seq[i] = seq[j] => i = j
AllDemandZero == \A s \in StopSet : stops[s].demand = 0

(* the units the running call has added to the ledger at stop s *)
Added(s) == Get(assigned_demands, s) - Get(frame.ledger_on_entry, s)
AddedTotal == SumOver([s \in StopSet |-> Added(s)], StopSet)

(* C1: at every point of a planning cycle and after it, the ledger entry of
   a stop with non-negative demand is at most that stop's demand. *)
C1_LedgerWithinDemand ==
    pc # "init" =>
        \A s \in StopSet :
            stops[s].demand >= 0 => Get(assigned_demands, s) <= stops[s].demand

(* C2 as stated: a returned route has at most max_stops entries, none of
   them twice, whatever max_stops is. *)
C2_RouteWithinMaxStops ==
    AtReturn => Len(frame.route) <= frame.max_stops /\ Distinct(frame.route)

(* C2: a returned route has at most max(1, max_stops) entries, none of them
   twice; with max_stops below 2 it is the start stop alone. *)
C2_RouteWithinMaxStopsOrStart ==
    AtReturn =>
        /\ Len(frame.route) <= Max(1, frame.max_stops)
        /\ Distinct(frame.route)
        /\ frame.max_stops < 2 => frame.route = <<buses[frame.bus_id].current_stop>>

(* a call from outside that max_stops cut short: capacity and stops are left *)
C2_Witness ==
    /\ AtReturn
    /\ frame.caller = "caller"
    /\ frame.max_stops = 2
    /\ Len(frame.route) = 2
    /\ frame.remaining_capacity > 0
    /\ \E s \in StopSet : s \notin Range(frame.route)

(* C3 as stated: with every demand 0, after the cycle every route is empty
   or the start stop alone, and every ledger entry is zero. *)
C3_ZeroDemandNoRoute ==
    (CycleDone /\ AllDemandZero) =>
        /\ \A b \in DOMAIN buses :
              buses[b].route \in {<< >>, <<buses[b].current_stop>>}
        /\ \A s \in StopSet : Get(assigned_demands, s) = 0

(* C3: with every demand 0, after the cycle every ledger entry is zero, and
   every route starts at the bus's start stop; a bus of positive capacity
   goes on through the zero-demand stops until max_stops or the stops run
   out, a bus of capacity 0 stays at its start stop. *)
C3_ZeroDemandZeroLedger ==
    (CycleDone /\ AllDemandZero) =>
        /\ \A s \in StopSet : Get(assigned_demands, s) = 0
        /\ \A b \in DOMAIN buses :
              /\ buses[b].route # NoRoute
              /\ Distinct(buses[b].route)
              /\ Len(buses[b].route) =
                    IF buses[b].capacity > 0
                    THEN Min(DefaultMaxStops, Cardinality(StopSet)) ELSE 1
              /\ buses[b].route[1] = buses[b].current_stop

(* a finished cycle on zero demand in which a bus toured the stops *)
C3_Witness ==
    /\ CycleDone
    /\ AllDemandZero
    /\ \E b \in DOMAIN buses : buses[b].capacity > 0 /\ Len(buses[b].route) > 1
    /\ DOMAIN assigned_demands # {}

(* C4 as stated: the scenario's cycle yields the route [A, B] and the
   ledger has 10 units claimed at B. *)
C4_ScenarioRouteAB ==
    CycleDone =>
        /\ buses["Bus_0"].route = <<"A", "B">>
        /\ Get(assigned_demands, "B") = 10

(* C4: the scenario's cycle yields the route [A, B, C]: B is chosen before
   C, and C is appended afterwards with no units; the ledger has 10 units
   claimed at B and none at A and C. *)
C4_ScenarioRouteABC ==
    CycleDone =>
        /\ buses["Bus_0"].route = <<"A", "B", "C">>
        /\ Get(assigned_demands, "B") = 10
        /\ Get(assigned_demands, "A") = 0
        /\ Get(assigned_demands, "C") = 0

(* the scenario's cycle has finished *)
C4_Witness ==
    /\ CycleDone
    /\ stops = [s \in StopSet |-> [demand |-> ScenarioDemands[s]]]
    /\ buses["Bus_0"].route # NoRoute

Rank(b) == CHOOSE i \in 1..Len(BusIds) : BusIds[i] = b

(* C5: the buses are processed in ascending id order, and the demand a bus
   sees at each stop is the stop's demand minus the units the buses before
   it have claimed in this cycle. *)
C5_OrderAndSeenDemand ==
    /\ \A i, j \in 1..Len(bus_ids) : i < j => Rank(bus_ids[i]) < Rank(bus_ids[j])
    /\ InCycleCall =>
          /\ \A i \in 1..Len(bus_ids) : Rank(frame.bus_id) < Rank(bus_ids[i])
          /\ \A s \in StopSet :
                frame.remaining_demands[s] =
                    stops[s].demand - Get(frame.ledger_on_entry, s)

(* C6: after any history of cycles, a finished cycle leaves the routes and
   the ledger that a new system with the same stops, buses and demands has
   after its first cycle; and no step after the setup changes a bus's start
   stop or capacity. *)
C6_HistoryIndependent ==
    /\ [](CycleDone =>
            /\ buses = FirstCycle.buses
            /\ assigned_demands = FirstCycle.ledger)
    /\ [][pc # "init" =>
            /\ bus_keys' = bus_keys
            /\ DOMAIN buses' = DOMAIN buses
            /\ \A b \in DOMAIN buses :
                  /\ buses'[b].current_stop = buses[b].current_stop
                  /\ buses'[b].capacity = buses[b].capacity]_vars

(* a cycle that began on a used system has finished with claims and routes *)
C6_Witness ==
    /\ CycleDone
    /\ rerun
    /\ \E s \in StopSet : Get(assigned_demands, s) > 0
    /\ \E b \in DOMAIN buses : Len(buses[b].route) > 1

InvalidInput ==
    \/ \E s \in StopSet : stops[s].demand < 0
    \/ \E b \in DOMAIN buses :
          buses[b].capacity <= 0 \/ buses[b].current_stop \notin StopSet

(* C7: on invalid input (a negative demand, a capacity that is not positive,
   an unknown start stop) update_all_routes assigns no route and leaves the
   ledger as it was. *)
C7_InvalidInputRejected ==
    [][(InvalidInput' /\ pc # "init" /\ pc' # "init") =>
          /\ assigned_demands' = assigned_demands
          /\ \A b \in DOMAIN buses : buses'[b].route = buses[b].route]_vars

(* C8: in a call for a bus of capacity c >= 0 on non-negative demands the
   units added to the ledger are non-negative and sum to c minus the
   remaining capacity, which is never below 0; a bus of capacity 0 adds
   nothing and its route has at most one stop. *)
C8_ClaimsWithinCapacity ==
    InCall =>
        LET c == buses[frame.bus_id].capacity IN
        /\ frame.remaining_capacity >= 0
        /\ \A s \in StopSet : Added(s) >= 0
        /\ AddedTotal = c - frame.remaining_capacity
        /\ AddedTotal <= c
        /\ c = 0 => (AddedTotal = 0 /\ Len(frame.route) <= 1)

(* a call that capacity cut short: a stop gave fewer units than it offered *)
C8_Witness ==
    /\ AtReturn
    /\ frame.remaining_capacity = 0
    /\ \E s \in StopSet : Added(s) > 0 /\ Added(s) < frame.remaining_demands[s]

(* C9: a bus processed when the buses before it have claimed the whole
   demand of every stop gets an empty route and claims no units. *)
C9_StandbyWhenAllClaimed ==
    (/\ AtReturn
     /\ frame.caller = "update_all_routes"
     /\ frame.fallback
     /\ \E s \in StopSet : stops[s].demand > 0) =>
        /\ frame.route = << >>
        /\ \A s \in StopSet : Added(s) = 0

SharedStart(s) ==
    /\ DOMAIN buses # {}
    /\ \A b \in DOMAIN buses : buses[b].current_stop = s

(* C10: a route under construction or assigned is never empty and starts at
   the bus's current_stop, a call adds no units at that stop, and when all
   buses share one start stop its ledger entry is 0 after every cycle. *)
C10_RouteStartsAtUnclaimedStart ==
    /\ InCall =>
          /\ frame.route # << >>
          /\ frame.route[1] = buses[frame.bus_id].current_stop
          /\ Added(buses[frame.bus_id].current_stop) = 0
    /\ CycleDone =>
          /\ \A b \in DOMAIN buses :
                /\ buses[b].route # << >>
                /\ buses[b].route[1] = buses[b].current_stop
          /\ \A s \in StopSet : SharedStart(s) => Get(assigned_demands, s) = 0

(* a finished cycle of buses that share a start stop with waiting
   passengers, while another stop was served *)
C10_Witness ==
    /\ CycleDone
    /\ \E s \in StopSet :
          /\ SharedStart(s)
          /\ DOMAIN buses = BusSet
          /\ stops[s].demand > 0
          /\ \E t \in StopSet \ {s} : Get(assigned_demands, t) > 0

====
